---------------------------- MODULE Spec2Model ----------------------------
(***************************************************************************)
(* Location-based provider discovery, subscription-tier resolution and    *)
(* booking eligibility of the Mahasewa backend                             *)
(* (app/api/v1/bookings.py, societies.py, providers.py, subscriptions.py). *)
(*                                                                         *)
(* Conventions of the model                                                *)
(*   - Python None is NoneNum for numeric/id fields, NoneStr for strings.  *)
(*   - Coordinates are integers in units of 0.05 degree on a grid next to  *)
(*     (0,0); distances are integers in units of 10 m (0.01 km), which is  *)
(*     also the precision of round(distance_km, 2).                        *)
(*   - Dates are integers in units of 30 days.                             *)
(***************************************************************************)
EXTENDS Integers, Sequences, FiniteSets, TLC

\* ------------------------------------------------------------------ bounds
MaxSubs == 2
MaxToday == 2
MaxBookings == 1

\* --------------------------------------------------------------- constants
NoneNum == -1
NoneStr == "<None>"
UnknownId == 99

\* one km in distance units
Km == 100

\* R, the Earth's radius in km
EarthRadius == 6371

\* the length of one grid step, R * radians(0.05 degree) = 5.5597 km, rounded
\* to the distance unit, with pi taken as 355 / 113
GridUnit == (2 * EarthRadius * Km * 355 + 113 * 180 * 20) \div (2 * 113 * 180 * 20)

VARIABLES providers, societies, subs, invoices, bookings, today, resp, sessions

vars == <<providers, societies, subs, invoices, bookings, today, resp, sessions>>

\* the server processes that share the database: a handler is a coroutine
\* without an await, so one process runs a request to its end, and requests
\* interleave between processes. sessions[w] is the database session
\* (get_db) of the request that process w is handling
Workers == {1, 2}

\* a process that handles no request
Idle == [pc |-> "idle"]

NoSessions == [w \in Workers |-> Idle]

ProviderIds == {1, 2}
SocietyIds == {1}

\* ------------------------------------------------------- Python primitives
\* truthiness of an optional number / Decimal: None and 0 are falsy
TruthyNum(x) == x # NoneNum /\ x # 0

\* truthiness of an optional string: None and "" are falsy
TruthyStr(s) == s # NoneStr /\ s # ""

\* str.lower() on the city names of the model
Lower(s) ==
    CASE s \in {"Thane", "THANE", "thane"} -> "thane"
      [] s \in {"Pune", "PUNE", "pune"} -> "pune"
      [] s \in {"Punegaon", "punegaon"} -> "punegaon"
      [] OTHER -> s

\* floor of the square root, by bisection on [lo, hi)
RECURSIVE ISqrtBetween(_, _, _)
ISqrtBetween(n, lo, hi) ==
    IF hi - lo <= 1 THEN lo
    ELSE LET mid == (lo + hi) \div 2
         IN  IF mid * mid <= n THEN ISqrtBetween(n, mid, hi)
             ELSE ISqrtBetween(n, lo, mid)

ISqrt(n) == ISqrtBetween(n, 0, 32768)

\* the Haversine great-circle distance R * c of two points of the grid, in
\* units of 10 m; on the grid (|lat| < 1 degree) cos(lat) is 1 to within
\* 2e-4 and the formula is R * sqrt(dlat^2 + dlon^2) to within 10 m
Haversine(lat1, lon1, lat2, lon2) ==
    ISqrt(GridUnit * GridUnit *
          ((lat2 - lat1) * (lat2 - lat1) + (lon2 - lon1) * (lon2 - lon1)))

calculate_distance_first_point_only(lat1, lon1, lat2, lon2) ==
    IF ~(TruthyNum(lat1) /\ TruthyNum(lon1))
    THEN NoneNum
    ELSE Haversine(lat1, lon1, lat2, lon2)

\* calculate_distance of societies.py / providers.py: None when one of the
\* four values is falsy
calculate_distance(lat1, lon1, lat2, lon2) ==
    IF ~(TruthyNum(lat1) /\ TruthyNum(lon1) /\ TruthyNum(lat2) /\ TruthyNum(lon2))
    THEN NoneNum
    ELSE Haversine(lat1, lon1, lat2, lon2)

\* GeocodingService.calculate_distance: the same formula with R = 6371.0 and
\* no test of the arguments, which are floats
GeocodingService_calculate_distance(lat1, lon1, lat2, lon2) ==
    Haversine(lat1, lon1, lat2, lon2)

\* ------------------------------------------------------ subscription plans
\* the catalog of seed_subscription_plans; duration_months * 30 days is
\* duration_months date units
Plans ==
    1 :> [tier |-> "basic_monthly", duration_months |-> 1,
          featured_listing |-> FALSE, priority_ranking |-> 1, is_active |-> TRUE]
 @@ 2 :> [tier |-> "basic_yearly", duration_months |-> 12,
          featured_listing |-> FALSE, priority_ranking |-> 2, is_active |-> TRUE]
 @@ 3 :> [tier |-> "premium_monthly", duration_months |-> 1,
          featured_listing |-> TRUE, priority_ranking |-> 5, is_active |-> TRUE]
 @@ 4 :> [tier |-> "premium_yearly", duration_months |-> 12,
          featured_listing |-> TRUE, priority_ranking |-> 6, is_active |-> TRUE]
 @@ 5 :> [tier |-> "elite_yearly", duration_months |-> 12,
          featured_listing |-> TRUE, priority_ranking |-> 10, is_active |-> TRUE]

PlanIds == DOMAIN Plans

\* the values a subscription_tier local can take: None, the five tiers of
\* SubscriptionTier, and values outside the enum
TierValues ==
    {NoneStr, "", "basic_monthly", "basic_yearly", "premium_monthly",
     "premium_yearly", "elite_yearly", "gold_yearly"}

\* tier_radius_map / max_radius_map, in km
EliteRadius == 999999

\* get_subscription_radius_km of providers.py
get_subscription_radius_km(subscription_tier) ==
    IF ~TruthyStr(subscription_tier) THEN 10
    ELSE CASE subscription_tier = "basic_monthly" -> 10
           [] subscription_tier = "basic_yearly" -> 10
           [] subscription_tier = "premium_monthly" -> 25
           [] subscription_tier = "premium_yearly" -> 25
           [] subscription_tier = "elite_yearly" -> EliteRadius
           [] OTHER -> 10

max_radius_map_get_stale(subscription_tier) ==
    IF subscription_tier = "premium_monthly" THEN 20
    ELSE get_subscription_radius_km(subscription_tier)

\* max_radius_map.get(subscription_tier, 10) if subscription_tier else 10,
\* the copy of the table inside create_booking
max_radius_map_get(subscription_tier) ==
    IF TruthyStr(subscription_tier)
    THEN CASE subscription_tier = "basic_monthly" -> 10
           [] subscription_tier = "basic_yearly" -> 10
           [] subscription_tier = "premium_monthly" -> 25
           [] subscription_tier = "premium_yearly" -> 25
           [] subscription_tier = "elite_yearly" -> EliteRadius
           [] OTHER -> 10
    ELSE 10

\* ------------------------------------------------------------ the resolver
ActiveSubscriptionsAnyDate(provider_id) ==
    {i \in 1..Len(subs) :
        /\ subs[i].service_provider_id = provider_id
        /\ subs[i].status = "active"}

ActiveSubscriptionsOrPending(provider_id) ==
    {i \in 1..Len(subs) :
        /\ subs[i].service_provider_id = provider_id
        /\ subs[i].status \in {"active", "pending_payment"}
        /\ subs[i].end_date >= today}

\* the rows matched by the filter service_provider_id == id, status ==
\* ACTIVE, end_date >= date.today(), as indices into subs
ActiveSubscriptions(provider_id) ==
    {i \in 1..Len(subs) :
        /\ subs[i].service_provider_id = provider_id
        /\ subs[i].status = "active"
        /\ subs[i].end_date >= today}

\* the orders in which storage may return the rows of a query that has no
\* ORDER BY: every enumeration of the matching rows
Orderings(rows) ==
    {o \in [1..Cardinality(rows) -> rows] :
        \A i, j \in 1..Cardinality(rows) : i # j => o[i] # o[j]}

\* Query.first(): the first row returned, or None (0) when there is none
first(order) == IF Len(order) = 0 THEN 0 ELSE order[1]

\* active_subscription.plan.tier.value if active_subscription and
\* active_subscription.plan else None
TierOf(sub) == IF sub # 0 THEN Plans[subs[sub].plan_id].tier ELSE NoneStr

\* ---------------------------------------------------------- create_booking
\* the Service rows: service id -> owning provider
Services == 1 :> 1 @@ 2 :> 2

Roles == {"mahasewa_member", "society_admin", "super_admin", "service_provider"}

\* require_any_role("mahasewa_member", "society_admin") of dependencies/auth.py
RoleAllowed(role) ==
    \/ role \in {"super_admin", "mahasewa_admin"}
    \/ role \in {"mahasewa_member", "society_admin"}

Format1fOmitted(d) == NoneNum

\* f"{distance_km:.1f}": the distance rounded to 0.1 km
Format1f(d) == ((d + 5) \div 10) * 10

\* the outcome of create_booking: the status code, the exit taken, the
\* request's ids, the locals subscription_tier and max_radius (None where
\* the handler does not compute them) and the radius and distance named in
\* the detail of the HTTPException
BookingResponse(code, kind, provider_id, society_id, tier, max_radius, radius, dist) ==
    [op |-> "create_booking", status_code |-> code, kind |-> kind,
     provider_id |-> provider_id, society_id |-> society_id,
     tier |-> tier, max_radius |-> max_radius,
     detail_radius |-> radius, detail_distance |-> dist]

\* the test that opens the distance branch: all four values truthy
BothLocated(provider, society) ==
    /\ TruthyNum(provider.latitude) /\ TruthyNum(provider.longitude)
    /\ TruthyNum(society.latitude) /\ TruthyNum(society.longitude)

CityRejectsAnyTier(provider, society, subscription_tier) ==
    /\ TruthyStr(provider.city) /\ TruthyStr(society.city)
    /\ Lower(provider.city) # Lower(society.city)

\* the city fallback of create_booking (bookings.py 157-164): TRUE when it
\* raises
CityRejects(provider, society, subscription_tier) ==
    /\ TruthyStr(provider.city) /\ TruthyStr(society.city)
    /\ Lower(provider.city) # Lower(society.city)
    /\ \/ ~TruthyStr(subscription_tier)
       \/ subscription_tier \in {"basic_monthly", "basic_yearly"}

AreaCheckForTierShrunkPremium(provider_id, society_id, subscription_tier) ==
    LET provider == providers[provider_id]
        society == societies[society_id]
    IN  IF BothLocated(provider, society)
        THEN LET distance_km == Haversine(provider.latitude, provider.longitude,
                                          society.latitude, society.longitude)
                 max_radius == IF subscription_tier = "premium_yearly" THEN 5
                               ELSE max_radius_map_get(subscription_tier)
             IN  IF distance_km > max_radius * Km
                 THEN BookingResponse(403, "ineligible_distance", provider_id,
                                      society_id, subscription_tier, max_radius,
                                      max_radius, Format1f(distance_km))
                 ELSE BookingResponse(200, "pass", provider_id, society_id,
                                      subscription_tier, max_radius,
                                      NoneNum, NoneNum)
        ELSE IF CityRejects(provider, society, subscription_tier)
        THEN BookingResponse(403, "ineligible_city", provider_id, society_id,
                             subscription_tier, NoneNum, NoneNum, NoneNum)
        ELSE BookingResponse(200, "pass", provider_id, society_id,
                             subscription_tier, NoneNum, NoneNum, NoneNum)

\* the area restriction of create_booking (bookings.py 128-164) for an
\* existing provider and society and the value of subscription_tier: the
\* response of the raised HTTPException, or kind "pass"
AreaCheckForTier(provider_id, society_id, subscription_tier) ==
    LET provider == providers[provider_id]
        society == societies[society_id]
    IN  IF BothLocated(provider, society)
        THEN LET distance_km == Haversine(provider.latitude, provider.longitude,
                                          society.latitude, society.longitude)
                 max_radius == max_radius_map_get(subscription_tier)
             IN  IF distance_km > max_radius * Km
                 THEN BookingResponse(403, "ineligible_distance", provider_id,
                                      society_id, subscription_tier, max_radius,
                                      max_radius, Format1f(distance_km))
                 ELSE BookingResponse(200, "pass", provider_id, society_id,
                                      subscription_tier, max_radius,
                                      NoneNum, NoneNum)
        ELSE IF CityRejects(provider, society, subscription_tier)
        THEN BookingResponse(403, "ineligible_city", provider_id, society_id,
                             subscription_tier, NoneNum, NoneNum, NoneNum)
        ELSE BookingResponse(200, "pass", provider_id, society_id,
                             subscription_tier, NoneNum, NoneNum, NoneNum)

\* the area restriction (bookings.py 119-164) for the row sub returned by
\* .first(), 0 for None
AreaCheck(provider_id, society_id, sub) ==
    AreaCheckForTier(provider_id, society_id, TierOf(sub))

\* the response of create_booking, in the order of the handler's checks
BookingResult(role, provider_id, service_id, society_id, date_ok, sub) ==
    LET Exit(code, kind, pid, sid) ==
            BookingResponse(code, kind, pid, sid, NoneStr, NoneNum, NoneNum, NoneNum)
        checked == TruthyNum(society_id)
    IN  IF ~RoleAllowed(role)
        THEN Exit(403, "forbidden_role", NoneNum, NoneNum)
        ELSE IF provider_id \notin DOMAIN providers
        THEN Exit(404, "provider_not_found", provider_id, NoneNum)
        ELSE IF /\ TruthyNum(service_id)
                /\ ~(/\ service_id \in DOMAIN Services
                     /\ Services[service_id] = provider_id)
        THEN Exit(404, "service_not_found", provider_id, NoneNum)
        ELSE IF checked /\ society_id \notin DOMAIN societies
        THEN Exit(404, "society_not_found", provider_id, society_id)
        ELSE IF checked /\ AreaCheck(provider_id, society_id, sub).kind # "pass"
        THEN AreaCheck(provider_id, society_id, sub)
        ELSE LET passed == IF checked THEN AreaCheck(provider_id, society_id, sub)
                           ELSE Exit(200, "pass", provider_id, society_id)
             IN  IF ~date_ok
                 THEN [passed EXCEPT !.status_code = 400, !.kind = "bad_date"]
                 ELSE [passed EXCEPT !.kind = "ok"]

BookingPersistedBeforeAreaCheck(r) ==
    r.kind \in {"ok", "ineligible_distance", "ineligible_city"}

\* whether the handler reaches db.add(new_booking); db.commit()
BookingPersisted(r) == r.kind = "ok"

create_booking(role, provider_id, service_id, society_id, date_ok) ==
    /\ \E r \in {BookingResult(role, provider_id, service_id, society_id,
                               date_ok, first(order)) :
                     order \in Orderings(ActiveSubscriptions(provider_id))} :
          /\ BookingPersisted(r) => Len(bookings) < MaxBookings
          /\ resp' = r
          /\ bookings' =
                IF BookingPersisted(r)
                THEN Append(bookings, [provider_id |-> provider_id,
                                       service_id |-> service_id,
                                       society_id |-> society_id,
                                       status |-> "requested"])
                ELSE bookings
    /\ UNCHANGED <<providers, societies, subs, invoices, today, sessions>>

\* ------------------------------------------------------- ranking and paging
Min(S) == CHOOSE x \in S : \A y \in S : x <= y

\* Python's order on tuples of equal length
LexLess(a, b) ==
    \E i \in 1..Len(a) : a[i] < b[i] /\ \A j \in 1..(i - 1) : a[j] = b[j]

InsertByKeyBeforeEqual(s, x) ==
    LET after == {i \in 1..Len(s) : ~LexLess(s[i].key, x.key)}
    IN  IF after = {} THEN Append(s, x)
        ELSE SubSeq(s, 1, Min(after) - 1) \o <<x>> \o SubSeq(s, Min(after), Len(s))

\* one step of a stable sort: x goes before the first element whose key is
\* greater than its own
InsertByKey(s, x) ==
    LET after == {i \in 1..Len(s) : LexLess(x.key, s[i].key)}
    IN  IF after = {} THEN Append(s, x)
        ELSE SubSeq(s, 1, Min(after) - 1) \o <<x>> \o SubSeq(s, Min(after), Len(s))

RECURSIVE SortPrefix(_, _)
SortPrefix(s, n) == IF n = 0 THEN <<>> ELSE InsertByKey(SortPrefix(s, n - 1), s[n])

\* list.sort(key=...): the stable ascending sort of entries carrying .key
SortByKey(s) == SortPrefix(s, Len(s))

\* the value the sort lambdas use for an unknown distance, in km
UnknownDistanceKey == 999999

DistanceKeyUnknownFirst(e) ==
    IF e.distance_km # NoneNum THEN e.distance_km ELSE 0

DistanceKey(e) ==
    IF e.distance_km # NoneNum THEN e.distance_km ELSE UnknownDistanceKey * Km

SortKeyFeaturedInRating(sort_by, has_location, e) ==
    CASE sort_by = "priority" ->
            <<IF e.featured_listing THEN 0 ELSE 1, -e.priority_ranking,
              DistanceKey(e), -e.rating, -e.reviews_count>>
      [] sort_by = "distance" /\ has_location -> <<DistanceKey(e)>>
      [] sort_by = "rating" ->
            <<IF e.featured_listing THEN 0 ELSE 1, -e.rating, -e.reviews_count>>
      [] OTHER -> <<>>

SortKeyDistanceBeforePriority(sort_by, has_location, e) ==
    CASE sort_by = "priority" ->
            <<IF e.featured_listing THEN 0 ELSE 1, DistanceKey(e),
              -e.priority_ranking, -e.rating, -e.reviews_count>>
      [] sort_by = "distance" /\ has_location -> <<DistanceKey(e)>>
      [] sort_by = "rating" -> <<-e.rating, -e.reviews_count>>
      [] OTHER -> <<>>

\* the sort of a listing: the key of the branch taken for sort_by, or no
\* sort at all; has_location is the truthiness of the requester's
\* latitude and longitude
SortKey(sort_by, has_location, e) ==
    CASE sort_by = "priority" ->
            <<IF e.featured_listing THEN 0 ELSE 1, -e.priority_ranking,
              DistanceKey(e), -e.rating, -e.reviews_count>>
      [] sort_by = "distance" /\ has_location -> <<DistanceKey(e)>>
      [] sort_by = "rating" -> <<-e.rating, -e.reviews_count>>
      [] OTHER -> <<>>

SortListing(entries, sort_by, has_location) ==
    LET keyed == [i \in 1..Len(entries) |->
                    [key |-> SortKey(sort_by, has_location, entries[i]),
                     item |-> entries[i]]]
        sorted == SortByKey(keyed)
    IN  [i \in 1..Len(entries) |-> sorted[i].item]

SliceOneMore(s, skip, limit) ==
    IF skip >= Len(s) THEN <<>>
    ELSE SubSeq(s, skip + 1, IF skip + limit + 1 < Len(s) THEN skip + limit + 1 ELSE Len(s))

\* seq[skip:skip + limit]
Slice(s, skip, limit) ==
    IF skip >= Len(s) THEN <<>>
    ELSE SubSeq(s, skip + 1, IF skip + limit < Len(s) THEN skip + limit ELSE Len(s))

\* round(distance_km, 2) if distance_km else None
OutDistance(d) == IF TruthyNum(d) THEN d ELSE NoneNum

\* ------------------------------------------------------ get_nearby_vendors
ProviderTypes == {"legal", "maintenance"}

\* ProviderType[provider_type.upper()]; an unknown name (KeyError) and a
\* falsy provider_type leave the query unfiltered
TypeMatches(provider, provider_type) ==
    \/ ~TruthyStr(provider_type)
    \/ provider_type \notin ProviderTypes
    \/ provider.provider_type = provider_type

\* truthiness of the JSON column service_areas
TruthyAreas(a) == a.kind = "other" \/ (a.kind = "list" /\ Len(a.items) > 0)

VendorKeptCaseSensitive(society, provider, distance_km, radius_km) ==
    /\ ~(/\ TruthyNum(radius_km) /\ TruthyNum(distance_km)
         /\ distance_km > radius_km * Km)
    /\ ~(/\ ~TruthyNum(distance_km)
         /\ TruthyStr(society.city) /\ TruthyStr(provider.city)
         /\ society.city # provider.city
         /\ \/ ~TruthyAreas(provider.service_areas)
            \/ provider.service_areas.kind # "list"
            \/ ~\E k \in 1..Len(provider.service_areas.items) :
                  Lower(provider.service_areas.items[k]) = Lower(society.city))

\* the filter of the loop body of get_nearby_vendors (societies.py 424-439):
\* TRUE when the provider is kept
VendorKept(society, provider, distance_km, radius_km) ==
    /\ ~(/\ TruthyNum(radius_km) /\ TruthyNum(distance_km)
         /\ distance_km > radius_km * Km)
    /\ ~(/\ ~TruthyNum(distance_km)
         /\ TruthyStr(society.city) /\ TruthyStr(provider.city)
         /\ Lower(society.city) # Lower(provider.city)
         /\ \/ ~TruthyAreas(provider.service_areas)
            \/ provider.service_areas.kind # "list"
            \/ ~\E k \in 1..Len(provider.service_areas.items) :
                  Lower(provider.service_areas.items[k]) = Lower(society.city))

\* the distance computed in the loop of get_nearby_vendors
VendorDistance(society, provider) ==
    IF /\ TruthyNum(society.latitude) /\ TruthyNum(society.longitude)
       /\ TruthyNum(provider.latitude) /\ TruthyNum(provider.longitude)
    THEN calculate_distance(society.latitude, society.longitude,
                            provider.latitude, provider.longitude)
    ELSE NoneNum

\* the dictionary appended to vendors_with_metadata for a provider and the
\* subscription row sub (0 for None)
VendorMetadata(society, id, sub) ==
    LET provider == providers[id]
        has_plan == sub # 0
        priority_ranking == IF has_plan THEN Plans[subs[sub].plan_id].priority_ranking ELSE 0
    IN  [id |-> id,
         subscription_tier |-> TierOf(sub),
         priority_ranking |-> priority_ranking,
         featured_listing |-> IF has_plan THEN Plans[subs[sub].plan_id].featured_listing ELSE FALSE,
         is_sponsored |-> priority_ranking > 0,
         distance_km |-> VendorDistance(society, provider),
         rating |-> IF TruthyNum(provider.average_rating) THEN provider.average_rating ELSE 0,
         reviews_count |-> IF TruthyNum(provider.total_reviews) THEN provider.total_reviews ELSE 0]

FilterPrefixKeepsAll(s, keep, n) == SubSeq(s, 1, n)

\* the entries of a sequence that satisfy keep, in order
RECURSIVE FilterPrefix(_, _, _)
FilterPrefix(s, keep, n) ==
    IF n = 0 THEN <<>>
    ELSE IF keep[n] THEN Append(FilterPrefix(s, keep, n - 1), s[n])
    ELSE FilterPrefix(s, keep, n - 1)

\* the response of get_nearby_vendors for the order in which providers_query
\* returns the providers and the subscription row .first() gives for each;
\* returned is that order, kept beside the response
NearbyVendorsResult(society_id, skip, limit, radius_km, provider_type, sort_by, provider_order, sub_of) ==
    IF society_id \notin DOMAIN societies
    THEN [op |-> "get_nearby_vendors", status_code |-> 404,
          society_id |-> society_id]
    ELSE
    LET society == societies[society_id]
        all == [i \in 1..Len(provider_order) |->
                  VendorMetadata(society, provider_order[i], sub_of[provider_order[i]])]
        keep == [i \in 1..Len(provider_order) |->
                  VendorKept(society, providers[provider_order[i]],
                             all[i].distance_km, radius_km)]
        vendors_with_metadata ==
            SortListing(FilterPrefix(all, keep, Len(all)), sort_by,
                        TruthyNum(society.latitude) /\ TruthyNum(society.longitude))
        page == Slice(vendors_with_metadata, skip, limit)
    IN  [op |-> "get_nearby_vendors", status_code |-> 200,
         society_id |-> society_id, radius_km |-> radius_km,
         vendors |-> [i \in 1..Len(page) |->
                        [id |-> page[i].id,
                         average_rating |-> page[i].rating,
                         total_reviews |-> page[i].reviews_count,
                         subscription_tier |-> page[i].subscription_tier,
                         is_featured |-> page[i].featured_listing,
                         is_sponsored |-> page[i].is_sponsored,
                         priority_ranking |-> page[i].priority_ranking,
                         distance_km |-> OutDistance(page[i].distance_km)]],
         total |-> Len(vendors_with_metadata),
         skip |-> skip, limit |-> limit, sort_by |-> sort_by,
         returned |-> provider_order]

\* the providers selected by providers_query of get_nearby_vendors
VerifiedActiveProviders(provider_type) ==
    {id \in DOMAIN providers :
        /\ providers[id].verification_status = "verified"
        /\ providers[id].is_active
        /\ TypeMatches(providers[id], provider_type)}

\* the ways the per-provider .first() queries of a listing can come out
FirstPerProvider(ids) ==
    {f \in [ids -> 0..Len(subs)] :
        \A id \in ids : \E o \in Orderings(ActiveSubscriptions(id)) : f[id] = first(o)}

get_nearby_vendors(society_id, skip, limit, radius_km, provider_type, sort_by) ==
    /\ resp' \in {NearbyVendorsResult(society_id, skip, limit, radius_km,
                                      provider_type, sort_by, provider_order, sub_of) :
                    provider_order \in Orderings(VerifiedActiveProviders(provider_type)),
                    sub_of \in FirstPerProvider(VerifiedActiveProviders(provider_type))}
    /\ UNCHANGED <<providers, societies, subs, invoices, bookings, today, sessions>>

\* ----------------------------------------------------------- list_providers
\* column.ilike(f"%{pattern}%") on the city names of the model: a
\* case-insensitive substring match, never true of a NULL column
ILikeContains(value, pattern) ==
    /\ value # NoneStr
    /\ \/ pattern = ""
       \/ Lower(value) = Lower(pattern)
       \/ Lower(pattern) = "pune" /\ Lower(value) = "punegaon"

\* the providers selected by the query of list_providers
ListedProviders(verified_only, provider_type, city) ==
    {id \in DOMAIN providers :
        /\ verified_only => providers[id].verification_status = "verified"
        /\ TypeMatches(providers[id], provider_type)
        /\ TruthyStr(city) => ILikeContains(providers[id].city, city)
        /\ providers[id].is_active}

\* the rows of all_subscriptions for the listed providers
AllActiveSubscriptions(ids) ==
    {i \in 1..Len(subs) :
        /\ subs[i].service_provider_id \in ids
        /\ subs[i].status = "active"
        /\ subs[i].end_date >= today}

Max(S) == CHOOSE x \in S : \A y \in S : x >= y

\* subscriptions_map.get(id) of the dict comprehension over all_subscriptions:
\* the last row of the provider in the order returned, or None (0)
subscriptions_map_get(order, id) ==
    LET at == {k \in 1..Len(order) : subs[order[k]].service_provider_id = id}
    IN  IF at = {} THEN 0 ELSE order[Max(at)]

\* the dictionary appended to providers_with_metadata
ProviderMetadata(latitude, longitude, id, sub) ==
    LET p == providers[id]
        has_plan == sub # 0
    IN  [id |-> id,
         subscription_status |-> IF has_plan THEN Plans[subs[sub].plan_id].tier ELSE "none",
         priority_ranking |-> IF has_plan THEN Plans[subs[sub].plan_id].priority_ranking ELSE 0,
         featured_listing |-> IF has_plan THEN Plans[subs[sub].plan_id].featured_listing ELSE FALSE,
         distance_km |->
            IF /\ TruthyNum(latitude) /\ TruthyNum(longitude)
               /\ TruthyNum(p.latitude) /\ TruthyNum(p.longitude)
            THEN calculate_distance(latitude, longitude, p.latitude, p.longitude)
            ELSE NoneNum,
         rating |-> IF TruthyNum(p.average_rating) THEN p.average_rating ELSE 0,
         reviews_count |-> IF TruthyNum(p.total_reviews) THEN p.total_reviews ELSE 0]

\* the response of list_providers for the orders in which the two queries
\* return their rows; latitude, longitude and returned are the request's
\* coordinates and the order of the providers, kept beside the response
ListProvidersResult(skip, limit, latitude, longitude, sort_by, provider_order, sub_order) ==
    LET all == [i \in 1..Len(provider_order) |->
                  ProviderMetadata(latitude, longitude, provider_order[i],
                                   subscriptions_map_get(sub_order, provider_order[i]))]
        providers_with_metadata ==
            SortListing(all, sort_by, TruthyNum(latitude) /\ TruthyNum(longitude))
        page == Slice(providers_with_metadata, skip, limit)
    IN  [op |-> "list_providers", status_code |-> 200,
         providers |-> [i \in 1..Len(page) |->
                          [id |-> page[i].id,
                           average_rating |-> page[i].rating,
                           total_reviews |-> page[i].reviews_count,
                           subscription_status |-> page[i].subscription_status,
                           is_featured |-> page[i].featured_listing,
                           is_sponsored |-> page[i].priority_ranking > 0,
                           priority_ranking |-> page[i].priority_ranking,
                           distance_km |-> OutDistance(page[i].distance_km)]],
         total |-> Len(provider_order),
         skip |-> skip, limit |-> limit, sort_by |-> sort_by,
         latitude |-> latitude, longitude |-> longitude,
         returned |-> provider_order]

list_providers(skip, limit, verified_only, provider_type, city, latitude, longitude, sort_by) ==
    /\ resp' \in {ListProvidersResult(skip, limit, latitude, longitude, sort_by,
                                      provider_order, sub_order) :
                    provider_order \in Orderings(ListedProviders(verified_only, provider_type, city)),
                    sub_order \in Orderings(AllActiveSubscriptions(
                                    ListedProviders(verified_only, provider_type, city)))}
    /\ UNCHANGED <<providers, societies, subs, invoices, bookings, today, sessions>>

\* ----------------------------------------------------- get_nearby_societies
\* the users that may call: 0 is no authenticated user; the user of a
\* provider has the provider's id; 7 is a member; 8 has the service
\* provider role and no provider profile
Users == {0, 1, 2, 7, 8}

UserRole(user) == IF user = 7 THEN "mahasewa_member" ELSE "service_provider"

\* the societies selected by societies_query
VerifiedActiveSocieties ==
    {id \in DOMAIN societies : societies[id].is_verified /\ societies[id].is_active}

NearbyEntryFallbackAbove10Km(provider, id, search_radius) ==
    LET society == societies[id]
    IN  IF TruthyNum(society.latitude) /\ TruthyNum(society.longitude)
        THEN LET distance == calculate_distance(provider.latitude, provider.longitude,
                                                society.latitude, society.longitude)
             IN  IF distance # NoneNum /\ distance <= search_radius * Km
                 THEN [id |-> id, distance_km |-> distance]
                 ELSE [id |-> 0, distance_km |-> NoneNum]
        ELSE IF /\ TruthyStr(society.city) /\ TruthyStr(provider.city)
                /\ Lower(society.city) = Lower(provider.city)
                /\ search_radius > 10
             THEN [id |-> id, distance_km |-> NoneNum]
             ELSE [id |-> 0, distance_km |-> NoneNum]

\* the entries appended to nearby_societies for the societies in the order
\* returned (providers.py 425-443); an entry with id 0 is a society skipped
NearbyEntry(provider, id, search_radius) ==
    LET society == societies[id]
    IN  IF TruthyNum(society.latitude) /\ TruthyNum(society.longitude)
        THEN LET distance == calculate_distance(provider.latitude, provider.longitude,
                                                society.latitude, society.longitude)
             IN  IF distance # NoneNum /\ distance <= search_radius * Km
                 THEN [id |-> id, distance_km |-> distance]
                 ELSE [id |-> 0, distance_km |-> NoneNum]
        ELSE IF /\ TruthyStr(society.city) /\ TruthyStr(provider.city)
                /\ Lower(society.city) = Lower(provider.city)
             THEN [id |-> id, distance_km |-> NoneNum]
             ELSE [id |-> 0, distance_km |-> NoneNum]

\* the response of get_nearby_societies for the value of subscription_tier
\* and the order in which societies_query returns the societies; returned is
\* that order, kept beside the response
NearbySocietiesForTier(user, skip, limit, radius_km, subscription_tier, society_order) ==
    IF user = 0
    THEN [op |-> "get_nearby_societies", status_code |-> 401]
    ELSE IF UserRole(user) # "service_provider"
    THEN [op |-> "get_nearby_societies", status_code |-> 403]
    ELSE IF user \notin DOMAIN providers
    THEN [op |-> "get_nearby_societies", status_code |-> 404]
    ELSE
    LET provider == providers[user]
        max_radius == get_subscription_radius_km(subscription_tier)
        search_radius == IF TruthyNum(radius_km) THEN radius_km ELSE max_radius
    IN  IF TruthyNum(provider.latitude) /\ TruthyNum(provider.longitude)
        THEN LET all == [i \in 1..Len(society_order) |->
                           NearbyEntry(provider, society_order[i], search_radius)]
                 kept == FilterPrefix(all, [i \in 1..Len(all) |-> all[i].id # 0], Len(all))
                 nearby_societies == SortListing(kept, "distance", TRUE)
                 paginated == Slice(nearby_societies, skip, limit)
             IN  [op |-> "get_nearby_societies", status_code |-> 200,
                  provider_id |-> user,
                  societies |-> [i \in 1..Len(paginated) |->
                                   [id |-> paginated[i].id,
                                    distance_km |-> OutDistance(paginated[i].distance_km)]],
                  total |-> Len(nearby_societies), skip |-> skip, limit |-> limit,
                  subscription_tier |-> subscription_tier,
                  max_radius_km |-> max_radius,
                  search_radius_km |-> search_radius, note |-> FALSE,
                  returned |-> society_order]
        ELSE LET all == [i \in 1..Len(society_order) |->
                           [id |-> society_order[i], distance_km |-> NoneNum]]
                 matching ==
                    FilterPrefix(all,
                        [i \in 1..Len(all) |->
                            TruthyStr(provider.city) =>
                                ILikeContains(societies[all[i].id].city, provider.city)],
                        Len(all))
                 page == Slice(matching, skip, limit)
             IN  [op |-> "get_nearby_societies", status_code |-> 200,
                  provider_id |-> user,
                  societies |-> page,
                  total |-> Len(matching), skip |-> skip, limit |-> limit,
                  subscription_tier |-> subscription_tier,
                  max_radius_km |-> max_radius,
                  search_radius_km |-> search_radius, note |-> TRUE,
                  returned |-> society_order]

\* the response for the row sub returned by .first(), 0 for None
NearbySocietiesResult(user, skip, limit, radius_km, sub, society_order) ==
    NearbySocietiesForTier(user, skip, limit, radius_km, TierOf(sub), society_order)

get_nearby_societies_expiring_lapsed(user, skip, limit, radius_km) ==
    /\ resp' \in {NearbySocietiesResult(user, skip, limit, radius_km,
                                        first(order), society_order) :
                    order \in Orderings(ActiveSubscriptions(user)),
                    society_order \in Orderings(VerifiedActiveSocieties)}
    /\ subs' = [i \in 1..Len(subs) |->
                    IF subs[i].status = "active" /\ subs[i].end_date < today
                    THEN [subs[i] EXCEPT !.status = "expired"]
                    ELSE subs[i]]
    /\ UNCHANGED <<providers, societies, invoices, bookings, today, sessions>>

get_nearby_societies(user, skip, limit, radius_km) ==
    /\ resp' \in {NearbySocietiesResult(user, skip, limit, radius_km,
                                        first(order), society_order) :
                    order \in Orderings(ActiveSubscriptions(user)),
                    society_order \in Orderings(VerifiedActiveSocieties)}
    /\ UNCHANGED <<providers, societies, subs, invoices, bookings, today, sessions>>

\* --------------------------------------------------------- subscriptions.py
\* the year of datetime.now(), twelve date units to the year
YearOf(day) == day \div 12

\* InvoiceService.generate_invoice_number: one more than the number of the
\* invoice of the current year with the highest id, or 1
generate_invoice_number ==
    LET same_year == {i \in 1..Len(invoices) :
                        invoices[i].invoice_number[1] = YearOf(today)}
    IN  IF same_year # {}
        THEN <<YearOf(today), invoices[Max(same_year)].invoice_number[2] + 1>>
        ELSE <<YearOf(today), 1>>

subscribe_vendor(provider_id, plan_id, auto_renew) ==
    /\ Len(subs) < MaxSubs
    /\ IF provider_id \notin DOMAIN providers
       THEN /\ resp' = [op |-> "subscribe_vendor", status_code |-> 404,
                        kind |-> "provider_not_found"]
            /\ UNCHANGED <<subs, invoices>>
       ELSE IF plan_id \notin PlanIds \/ ~Plans[plan_id].is_active
       THEN /\ resp' = [op |-> "subscribe_vendor", status_code |-> 404,
                        kind |-> "plan_not_found"]
            /\ UNCHANGED <<subs, invoices>>
       ELSE /\ subs' = Append(subs,
                         [service_provider_id |-> provider_id,
                          plan_id |-> plan_id,
                          start_date |-> today,
                          end_date |-> today + Plans[plan_id].duration_months,
                          status |-> "pending_payment",
                          auto_renew |-> auto_renew,
                          invoice_id |-> Len(invoices) + 1])
            /\ invoices' = Append(invoices,
                             [invoice_number |-> generate_invoice_number,
                              status |-> "pending",
                              related_id |-> Len(subs) + 1])
            /\ resp' = [op |-> "subscribe_vendor", status_code |-> 200,
                        kind |-> "ok",
                        subscription_id |-> Len(subs) + 1,
                        invoice_number |-> generate_invoice_number]
    /\ UNCHANGED <<providers, societies, bookings, today, sessions>>

\* subscribe_vendor as process w runs it, up to the return of
\* generate_invoice_number (subscriptions.py 53-87, invoice_service.py 68):
\* the provider and plan look-ups, the dates, the subscription added and
\* flushed inside the session, and the number computed from the invoices that
\* are committed at that moment; nothing is visible to other sessions yet
subscribe_vendor_begin(w, provider_id, plan_id, auto_renew) ==
    /\ sessions[w] = Idle
    /\ Len(subs) + Cardinality({v \in Workers : sessions[v] # Idle}) < MaxSubs
    /\ IF provider_id \notin DOMAIN providers
       THEN /\ resp' = [op |-> "subscribe_vendor", status_code |-> 404,
                        kind |-> "provider_not_found"]
            /\ UNCHANGED sessions
       ELSE IF plan_id \notin PlanIds \/ ~Plans[plan_id].is_active
       THEN /\ resp' = [op |-> "subscribe_vendor", status_code |-> 404,
                        kind |-> "plan_not_found"]
            /\ UNCHANGED sessions
       ELSE /\ sessions' = [sessions EXCEPT ![w] =
                               [pc |-> "numbered",
                                provider_id |-> provider_id,
                                plan_id |-> plan_id,
                                auto_renew |-> auto_renew,
                                start_date |-> today,
                                invoice_number |-> generate_invoice_number]]
            /\ UNCHANGED resp
    /\ UNCHANGED <<providers, societies, subs, invoices, bookings, today>>

\* the rest of subscribe_vendor in process w: the invoice is added and
\* committed with the subscription (invoice_service.py 87-111), then the
\* subscription's invoice_id (subscriptions.py 100-101). invoice_number is
\* a unique column (models/invoice.py 36): the commit of a number that a
\* committed invoice already has raises IntegrityError, which no handler
\* catches, so the request ends in a 500 and its session is rolled back.
\* Rows are numbered in the order of their commits
subscribe_vendor_commit(w) ==
    /\ sessions[w] # Idle
    /\ LET s == sessions[w]
       IN  IF \E i \in 1..Len(invoices) :
                  invoices[i].invoice_number = s.invoice_number
           THEN /\ resp' = [op |-> "subscribe_vendor", status_code |-> 500,
                            kind |-> "integrity_error"]
                /\ UNCHANGED <<subs, invoices>>
           ELSE /\ subs' = Append(subs,
                             [service_provider_id |-> s.provider_id,
                              plan_id |-> s.plan_id,
                              start_date |-> s.start_date,
                              end_date |-> s.start_date + Plans[s.plan_id].duration_months,
                              status |-> "pending_payment",
                              auto_renew |-> s.auto_renew,
                              invoice_id |-> Len(invoices) + 1])
                /\ invoices' = Append(invoices,
                                 [invoice_number |-> s.invoice_number,
                                  status |-> "pending",
                                  related_id |-> Len(subs) + 1])
                /\ resp' = [op |-> "subscribe_vendor", status_code |-> 200,
                            kind |-> "ok",
                            subscription_id |-> Len(subs) + 1,
                            invoice_number |-> s.invoice_number]
    /\ sessions' = [sessions EXCEPT ![w] = Idle]
    /\ UNCHANGED <<providers, societies, bookings, today>>

\* InvoiceService.mark_as_paid
mark_as_paid(invoice_id) == [invoices EXCEPT ![invoice_id].status = "paid"]

\* the roles a caller of activate_subscription may have
CallerRoles == {"super_admin", "service_provider"}

\* activate_subscription: its parameters are subscription_id, payment_method,
\* payment_reference and db (subscriptions.py 152-157), with no dependency
\* that identifies the caller, so caller_role is not read; it is kept
\* beside the response
activate_subscription(caller_role, subscription_id) ==
    /\ IF subscription_id \notin 1..Len(subs)
       THEN /\ resp' = [op |-> "activate_subscription", status_code |-> 404,
                        caller_role |-> caller_role]
            /\ UNCHANGED <<subs, invoices, providers>>
       ELSE /\ subs' = [subs EXCEPT ![subscription_id].status = "active"]
            /\ invoices' = IF TruthyNum(subs[subscription_id].invoice_id)
                           THEN mark_as_paid(subs[subscription_id].invoice_id)
                           ELSE invoices
            /\ providers' = [providers EXCEPT
                               ![subs[subscription_id].service_provider_id].is_active = TRUE]
            /\ resp' = [op |-> "activate_subscription", status_code |-> 200,
                        caller_role |-> caller_role,
                        subscription_id |-> subscription_id,
                        provider_id |-> subs[subscription_id].service_provider_id]
    /\ UNCHANGED <<societies, bookings, today, sessions>>

\* date.today() moves on by one date unit; the response on display belongs
\* to the day that has passed
AdvanceDay ==
    /\ today < MaxToday
    /\ today' = today + 1
    /\ resp' = [op |-> "none"]
    /\ UNCHANGED <<providers, societies, subs, invoices, bookings, sessions>>

\* ------------------------------------------------------------ the catalogs
NoAreas == [kind |-> "none", items |-> <<>>]

ProviderRow(city, lat, lon, areas, verification, active) ==
    [city |-> city, latitude |-> lat, longitude |-> lon,
     service_areas |-> areas, verification_status |-> verification,
     is_active |-> active, provider_type |-> "maintenance",
     average_rating |-> 450, total_reviews |-> 10]

SocietyRow(city, lat, lon) ==
    [city |-> city, latitude |-> lat, longitude |-> lon,
     is_verified |-> TRUE, is_active |-> TRUE]

\* provider 2 of both specifications: registered without coordinates, serving
\* Thane from Pune, verified; inactive unless a specification says otherwise
SecondProvider ==
    [ProviderRow("Pune", NoneNum, NoneNum,
                 [kind |-> "list", items |-> <<"THANE">>], "verified", FALSE)
        EXCEPT !.provider_type = "legal", !.average_rating = 480]

\* the largest page used
PageLimit == 100

\* ---------------------------------------- specification of the life cycle
\* both providers are approved and stay inactive until a subscription of
\* theirs is paid (admin.py 153-154); provider 2 never subscribes; one
\* society; no subscription yet
Init ==
    /\ providers = 1 :> ProviderRow("Thane", 2, 2, NoAreas, "verified", FALSE)
                @@ 2 :> SecondProvider
    /\ societies = 1 :> SocietyRow("thane", 2, 5)
    /\ subs = <<>>
    /\ invoices = <<>>
    /\ bookings = <<>>
    /\ today = 0
    /\ resp = [op |-> "none"]
    /\ sessions = NoSessions

\* subscribe requests <<provider_id, plan_id>>: provider 1 takes the basic
\* monthly or the premium yearly plan; an unknown provider; an unknown plan
SubscribeRequests ==
    {<<1, 1>>, <<1, 4>>, <<UnknownId, 1>>, <<1, UnknownId>>}

\* booking requests <<role, provider_id, service_id, society_id, date_ok>>:
\* one for each exit of the handler
BookingRequests ==
    {<<"service_provider", 1, NoneNum, 1, TRUE>>,
     <<"mahasewa_member", UnknownId, NoneNum, 1, TRUE>>,
     <<"mahasewa_member", 1, 2, 1, TRUE>>,
     <<"society_admin", 1, 1, UnknownId, TRUE>>,
     <<"mahasewa_member", 1, NoneNum, 1, FALSE>>,
     <<"mahasewa_member", 1, NoneNum, 1, TRUE>>}

Next ==
    \/ \E rq \in SubscribeRequests :
          subscribe_vendor(rq[1], rq[2], FALSE)
    \/ \E caller_role \in CallerRoles, subscription_id \in 1..(MaxSubs + 1) :
          activate_subscription(caller_role, subscription_id)
    \/ AdvanceDay
    \/ \E rq \in BookingRequests :
          create_booking(rq[1], rq[2], rq[3], rq[4], rq[5])
    \/ \E society_id \in SocietyIds \cup {UnknownId} :
          get_nearby_vendors(society_id, 0, PageLimit, NoneNum, NoneStr, "priority")
    \/ list_providers(0, PageLimit, FALSE, NoneStr, NoneStr, NoneNum, NoneNum, "priority")
    \/ \E user \in Users :
          get_nearby_societies(user, 0, PageLimit, NoneNum)

Spec == Init /\ [][Next]_vars

\* ------------------------------------------- specification of the geography
\* (latitude, longitude) of provider 1: none, on the equator, off the axes
ProviderPlaces == {<<NoneNum, NoneNum>>, <<0, 2>>, <<2, 2>>}

\* (latitude, longitude) of the society: none, or 0, 5.56, 16.68 and 38.92 km
\* from the provider at (2, 2)
SocietyPlaces == {<<NoneNum, NoneNum>>, <<2, 2>>, <<2, 3>>, <<2, 5>>, <<2, 9>>}

ProviderCities == {NoneStr, "Thane", "Pune"}

SocietyCities == {"thane", "Pune"}

AreaValues == {NoAreas, [kind |-> "list", items |-> <<"THANE">>],
               [kind |-> "other", items |-> <<>>]}

SubRow(provider_id, plan_id, status, end_date) ==
    [service_provider_id |-> provider_id, plan_id |-> plan_id,
     start_date |-> 0, end_date |-> end_date, status |-> status,
     auto_renew |-> FALSE, invoice_id |-> NoneNum]

\* the subscription history of provider 1 on day 1: none, one current
\* subscription of each tier, or one that is not current
SubscriptionHistories ==
    {<<>>}
    \cup {<<SubRow(1, plan_id, "active", 12)>> : plan_id \in PlanIds}
    \cup {<<SubRow(1, 4, "active", 0)>>, <<SubRow(1, 5, "pending_payment", 12)>>,
          <<SubRow(1, 4, "expired", 12)>>, <<SubRow(1, 5, "cancelled", 12)>>}

InitGeo ==
    /\ \E place \in ProviderPlaces, city \in ProviderCities, areas \in AreaValues,
          verification \in {"verified", "pending"}, active \in BOOLEAN :
          providers = 1 :> ProviderRow(city, place[1], place[2], areas,
                                       verification, active)
                   @@ 2 :> SecondProvider
    /\ \E place \in SocietyPlaces, city \in SocietyCities :
          societies = 1 :> SocietyRow(city, place[1], place[2])
    /\ subs \in SubscriptionHistories
    /\ invoices = <<>>
    /\ bookings = <<>>
    /\ today = 1
    /\ resp = [op |-> "none"]
    /\ sessions = NoSessions

NextGeo ==
    \/ \E provider_id \in {1, UnknownId}, society_id \in {NoneNum, 1} :
          create_booking("mahasewa_member", provider_id, NoneNum, society_id, TRUE)
    \/ \E radius_km \in {NoneNum, 10} :
          get_nearby_vendors(1, 0, PageLimit, radius_km, NoneStr, "priority")
    \/ \E radius_km \in {NoneNum, 30} :
          get_nearby_societies(1, 0, PageLimit, radius_km)
    \/ list_providers(0, PageLimit, FALSE, NoneStr, NoneStr, NoneNum, NoneNum, "priority")

SpecGeo == InitGeo /\ [][NextGeo]_vars

\* ------------------------------------ specification of the distance functions
\* the values of a latitude or longitude argument: None, 0 and grid values
CoordinateValues == {NoneNum, 0, 1, 2, 3}

InitDistance ==
    /\ providers = 1 :> ProviderRow("Thane", 2, 2, NoAreas, "verified", TRUE)
                @@ 2 :> SecondProvider
    /\ societies = 1 :> SocietyRow("thane", 2, 5)
    /\ subs = <<>>
    /\ invoices = <<>>
    /\ bookings = <<>>
    /\ today = 0
    /\ resp = [op |-> "none"]
    /\ sessions = NoSessions

\* a call of calculate_distance (providers.py 34, societies.py 19)
calculate_distance_call(lat1, lon1, lat2, lon2) ==
    /\ resp' = [op |-> "calculate_distance",
                lat1 |-> lat1, lon1 |-> lon1, lat2 |-> lat2, lon2 |-> lon2,
                result |-> calculate_distance(lat1, lon1, lat2, lon2)]
    /\ UNCHANGED <<providers, societies, subs, invoices, bookings, today, sessions>>

\* a call of GeocodingService.calculate_distance
geocoding_distance_call(lat1, lon1, lat2, lon2) ==
    /\ resp' = [op |-> "GeocodingService.calculate_distance",
                lat1 |-> lat1, lon1 |-> lon1, lat2 |-> lat2, lon2 |-> lon2,
                result |-> GeocodingService_calculate_distance(lat1, lon1, lat2, lon2)]
    /\ UNCHANGED <<providers, societies, subs, invoices, bookings, today, sessions>>

NextDistance ==
    \/ \E lat1, lon1, lat2, lon2 \in CoordinateValues :
          calculate_distance_call(lat1, lon1, lat2, lon2)
    \/ \E lat1, lon1, lat2, lon2 \in CoordinateValues \ {NoneNum} :
          geocoding_distance_call(lat1, lon1, lat2, lon2)

SpecDistance == InitDistance /\ [][NextDistance]_vars

\* --------------------------------------------- specification of the ranking
\* three verified, active providers of Pune and three societies, on day 1.
\* Provider 1 is on the premium monthly plan, 5.56 km from society 1, rated
\* 4.5 with 10 reviews; provider 3 has no subscription.
RankedProvider(place, rating, reviews) ==
    [ProviderRow("Pune", place[1], place[2], NoAreas, "verified", TRUE)
        EXCEPT !.average_rating = rating, !.total_reviews = reviews]

\* <<plan_id or 0, place, rating>> of provider 2, which has 10 reviews: it
\* differs from provider 1 in one key of the ranking, or in none
SecondProfiles ==
    {<<0, <<2, 3>>, 450>>, <<0, <<NoneNum, NoneNum>>, 450>>,
     <<5, <<2, 3>>, 450>>, <<5, <<NoneNum, NoneNum>>, 450>>,
     <<3, <<2, 2>>, 450>>, <<3, <<NoneNum, NoneNum>>, 450>>,
     <<3, <<2, 3>>, 480>>,
     <<3, <<2, 3>>, 450>>}

\* <<place, reviews>> of provider 3, which is rated 4.5
ThirdProfiles ==
    {<<NoneNum, NoneNum>>, <<2, 3>>} \X {10, 20}

\* the current subscriptions of providers 1 and 2, provider 2 having one
\* when plan_id is not 0
RankedSubscriptions(second_plan) ==
    <<SubRow(1, 3, "active", 12)>>
    \o (IF second_plan = 0 THEN <<>> ELSE <<SubRow(2, second_plan, "active", 12)>>)

InitRank ==
    /\ \E second \in SecondProfiles, third \in ThirdProfiles :
          /\ providers = 1 :> RankedProvider(<<2, 3>>, 450, 10)
                       @@ 2 :> RankedProvider(second[2], second[3], 10)
                       @@ 3 :> RankedProvider(third[1], 450, third[2])
          /\ subs = RankedSubscriptions(second[1])
    /\ societies = 1 :> SocietyRow("Pune", 2, 2)
                @@ 2 :> SocietyRow("Punegaon", NoneNum, NoneNum)
                @@ 3 :> SocietyRow("PUNE", NoneNum, NoneNum)
    /\ invoices = <<>>
    /\ bookings = <<>>
    /\ today = 1
    /\ resp = [op |-> "none"]
    /\ sessions = NoSessions

\* requests <<society_id, skip, limit, sort_by>> of get_nearby_vendors
VendorListingRequests ==
    {<<1, 0, PageLimit, "priority">>, <<1, 0, PageLimit, "distance">>,
     <<1, 0, PageLimit, "rating">>, <<1, 1, 2, "priority">>,
     <<3, 0, PageLimit, "distance">>, <<2, 0, PageLimit, "priority">>}

\* requests <<skip, limit, latitude, longitude, sort_by>> of list_providers
ProviderListingRequests ==
    {<<0, PageLimit, 2, 2, "priority">>, <<0, PageLimit, NoneNum, NoneNum, "priority">>,
     <<0, PageLimit, 2, 2, "distance">>, <<0, PageLimit, 2, 2, "rating">>,
     <<1, 2, 2, 2, "priority">>, <<0, PageLimit, NoneNum, NoneNum, "distance">>}

NextRank ==
    \/ \E rq \in VendorListingRequests :
          get_nearby_vendors(rq[1], rq[2], rq[3], NoneNum, NoneStr, rq[4])
    \/ \E rq \in ProviderListingRequests :
          list_providers(rq[1], rq[2], FALSE, NoneStr, NoneStr, rq[3], rq[4], rq[5])
    \/ \E user \in {1, 2} :
          get_nearby_societies(user, 0, PageLimit, NoneNum)

SpecRank == InitRank /\ [][NextRank]_vars

\* ---------------------------------------------- specification of the paging
\* the providers and societies of the ranking with some that the filters of
\* the listings remove: provider 2 may be of another city and may lack
\* coordinates, provider 3 (no coordinates) may be awaiting verification
InitPage ==
    /\ \E city \in {"Pune", "Thane"}, place \in {<<NoneNum, NoneNum>>, <<2, 3>>},
          verification \in {"verified", "pending"} :
          providers = 1 :> RankedProvider(<<2, 3>>, 450, 10)
                   @@ 2 :> [RankedProvider(place, 450, 10) EXCEPT !.city = city]
                   @@ 3 :> [RankedProvider(<<NoneNum, NoneNum>>, 450, 20)
                                EXCEPT !.verification_status = verification]
    /\ subs = RankedSubscriptions(0)
    /\ societies = 1 :> SocietyRow("Pune", 2, 2)
                @@ 2 :> SocietyRow("Punegaon", NoneNum, NoneNum)
                @@ 3 :> SocietyRow("PUNE", NoneNum, NoneNum)
    /\ invoices = <<>>
    /\ bookings = <<>>
    /\ today = 1
    /\ resp = [op |-> "none"]
    /\ sessions = NoSessions

\* <<skip, limit>> of the requests: skip: int = Query(0, ge=0) up to the
\* length of the longest listing, limit: int = Query(.., ge=1, le=100)
PageRequests == (0..3) \X {1, 2, PageLimit}

NextPage ==
    \/ \E rq \in PageRequests :
          get_nearby_vendors(1, rq[1], rq[2], NoneNum, NoneStr, "priority")
    \/ \E rq \in PageRequests :
          list_providers(rq[1], rq[2], TRUE, NoneStr, NoneStr, 2, 2, "priority")
    \/ \E rq \in PageRequests, user \in {1, 2} :
          get_nearby_societies(user, rq[1], rq[2], NoneNum)

SpecPage == InitPage /\ [][NextPage]_vars

\* ------------------------------------ specification of invoice numbering
\* two server processes handle subscribe_vendor requests against the same
\* database; a request's reads and its commit are separate steps
InitInvoice == Init

NextInvoice ==
    \/ \E w \in Workers, rq \in SubscribeRequests :
          subscribe_vendor_begin(w, rq[1], rq[2], FALSE)
    \/ \E w \in Workers :
          subscribe_vendor_commit(w)
    \/ \E caller_role \in CallerRoles, subscription_id \in 1..(MaxSubs + 1) :
          activate_subscription(caller_role, subscription_id)
    \/ AdvanceDay

SpecInvoice == InitInvoice /\ [][NextInvoice]_vars

\* ================================================================ properties
\* a record has a coordinate when neither value is absent
HasCoordinate(row) == row.latitude # NoneNum /\ row.longitude # NoneNum

\* the great-circle distance of two records that have coordinates
GreatCircle(a, b) == Haversine(a.latitude, a.longitude, b.latitude, b.longitude)

\* half the Earth's circumference in km, above every great-circle distance
HalfCircumference == (EarthRadius * 355) \div 113 + 1

\* the radius rule of the tiers: 10 km without a tier and for basic, 25 km
\* for premium, no limit for elite
TierRadiusAllows(tier, d) ==
    CASE tier \in {"premium_monthly", "premium_yearly"} -> d <= 25 * Km
      [] tier = "elite_yearly" -> TRUE
      [] OTHER -> d <= 10 * Km

\* the subscriptions of a provider that are currently active
CurrentSubscriptions(provider_id) ==
    {i \in 1..Len(subs) :
        /\ subs[i].service_provider_id = provider_id
        /\ subs[i].status = "active"
        /\ subs[i].end_date >= today}

\* resp is the outcome of a booking request that named an existing provider
\* and an existing society and so reached the area restriction
ReachedAreaCheck ==
    /\ resp.op = "create_booking"
    /\ resp.kind \in {"ok", "bad_date", "ineligible_distance", "ineligible_city"}
    /\ TruthyNum(resp.society_id)

PassedAreaCheck == ReachedAreaCheck /\ resp.kind \in {"ok", "bad_date"}

\* C1: every vendor that get_nearby_vendors lists for a society, both having
\* coordinates, lies within the radius of its resolved tier.
C1_ListedWithinTierRadius ==
    (resp.op = "get_nearby_vendors" /\ resp.status_code = 200) =>
        \A i \in 1..Len(resp.vendors) :
            LET v == resp.vendors[i]
                provider == providers[v.id]
                society == societies[resp.society_id]
            IN  (HasCoordinate(provider) /\ HasCoordinate(society)) =>
                    TierRadiusAllows(v.subscription_tier, GreatCircle(provider, society))

\* C2: a booking for a society, provider and society both having coordinates,
\* is accepted iff the distance is within the radius of the resolved tier,
\* and is rejected with a 403 otherwise.
C2_BookingAcceptedIffWithinRadius ==
    (/\ ReachedAreaCheck
     /\ resp.kind # "bad_date"
     /\ HasCoordinate(providers[resp.provider_id])
     /\ HasCoordinate(societies[resp.society_id])) =>
        LET within == TierRadiusAllows(resp.tier,
                          GreatCircle(providers[resp.provider_id],
                                      societies[resp.society_id]))
        IN  /\ resp.kind = "ok" <=> within
            /\ ~within => resp.status_code = 403

\* C3: a booking request that fails with 404 or 403 leaves the persisted
\* bookings as they were.
C3_RejectedBookingWritesNothing ==
    [][(resp'.op = "create_booking" /\ resp'.status_code \in {403, 404})
            => bookings' = bookings]_vars

C3_Witness ==
    /\ resp.op = "create_booking"
    /\ resp.kind = "ineligible_distance"
    /\ Len(bookings) = 1

\* C4: no provider has more than one currently active subscription.
C4_AtMostOneCurrentSubscription ==
    \A provider_id \in ProviderIds :
        Cardinality(CurrentSubscriptions(provider_id)) <= 1

\* the plan of a resolved subscription row, 0 for none
PlanOf(sub) == IF sub = 0 THEN 0 ELSE subs[sub].plan_id

\* the plans .first() can resolve for a provider (get_nearby_vendors,
\* get_nearby_societies, create_booking) over the orders storage may use
ResolvedByFirst(provider_id) ==
    {PlanOf(first(o)) : o \in Orderings(ActiveSubscriptions(provider_id))}

\* the plans the subscriptions_map of list_providers can resolve
ResolvedByMap(provider_id) ==
    {PlanOf(subscriptions_map_get(o, provider_id)) :
        o \in Orderings(AllActiveSubscriptions(ListedProviders(FALSE, NoneStr, NoneStr)))}

\* C5: the four handlers resolve the same subscription plan for a provider,
\* whatever the order in which storage returns the rows.
C5_ResolutionIsDeterministic ==
    \A provider_id \in ListedProviders(FALSE, NoneStr, NoneStr) :
        Cardinality(ResolvedByFirst(provider_id) \cup ResolvedByMap(provider_id)) = 1

\* C6 as stated: a booking for a pair in which the provider or the society
\* lacks a coordinate is never rejected on geographic grounds.
C6_NoCityRuleAtBooking ==
    (/\ ReachedAreaCheck
     /\ ~(/\ HasCoordinate(providers[resp.provider_id])
          /\ HasCoordinate(societies[resp.society_id]))) =>
        resp.status_code # 403

\* C6 amended: on the fallback path (a latitude or longitude absent or 0)
\* create_booking rejects with a 403 exactly when both cities are set, they
\* differ after case folding and the resolved tier is none or basic; the
\* distance rule is not applied there.
C6_CityRuleAtBooking ==
    (/\ ReachedAreaCheck
     /\ ~BothLocated(providers[resp.provider_id], societies[resp.society_id])) =>
        LET provider == providers[resp.provider_id]
            society == societies[resp.society_id]
            differ == /\ provider.city \notin {NoneStr, ""}
                      /\ society.city \notin {NoneStr, ""}
                      /\ Lower(provider.city) # Lower(society.city)
            low == resp.tier \in {NoneStr, "basic_monthly", "basic_yearly"}
        IN  /\ resp.kind # "ineligible_distance"
            /\ resp.kind = "ineligible_city" <=> (differ /\ low)
            /\ resp.kind = "ineligible_city" => resp.status_code = 403

C6_Witness ==
    /\ ReachedAreaCheck
    /\ resp.kind = "ineligible_city"
    /\ ~HasCoordinate(providers[resp.provider_id])
    /\ resp.tier = "basic_yearly"

\* the provider is in the result set of get_nearby_vendors for the society,
\* without radius_km, whatever order storage uses
ListedFor(provider_id, society_id) ==
    \A provider_order \in Orderings(VerifiedActiveProviders(NoneStr)) :
    \A sub_of \in FirstPerProvider(VerifiedActiveProviders(NoneStr)) :
        \E i \in 1..Len(NearbyVendorsResult(society_id, 0, PageLimit, NoneNum,
                            NoneStr, "priority", provider_order, sub_of).vendors) :
            NearbyVendorsResult(society_id, 0, PageLimit, NoneNum, NoneStr,
                "priority", provider_order, sub_of).vendors[i].id = provider_id

VerifiedActive(provider_id) ==
    /\ providers[provider_id].verification_status = "verified"
    /\ providers[provider_id].is_active

IsIneligible == resp.op = "create_booking" /\ resp.kind \in {"ineligible_distance", "ineligible_city"}

C9_DefaultResolution ==
    /\ (ReachedAreaCheck /\ CurrentSubscriptions(resp.provider_id) = {}) =>
            /\ resp.tier = NoneStr
            /\ BothLocated(providers[resp.provider_id], societies[resp.society_id])
                    => resp.max_radius = 10
            /\ resp.kind = "ineligible_distance" => resp.detail_radius = 10
    /\ (resp.op = "get_nearby_vendors" /\ resp.status_code = 200) =>
            \A i \in 1..Len(resp.vendors) :
                CurrentSubscriptions(resp.vendors[i].id) = {} =>
                    /\ resp.vendors[i].subscription_tier = NoneStr
                    /\ resp.vendors[i].priority_ranking = 0
                    /\ ~resp.vendors[i].is_sponsored
                    /\ ~resp.vendors[i].is_featured
    /\ (/\ resp.op = "get_nearby_societies" /\ resp.status_code = 200
        /\ CurrentSubscriptions(resp.provider_id) = {}) =>
            /\ resp.subscription_tier = NoneStr
            /\ resp.max_radius_km = 10
    /\ resp.op = "list_providers" =>
            \A i \in 1..Len(resp.providers) :
                CurrentSubscriptions(resp.providers[i].id) = {} =>
                    /\ resp.providers[i].subscription_status = "none"
                    /\ resp.providers[i].priority_ranking = 0
                    /\ ~resp.providers[i].is_sponsored
                    /\ ~resp.providers[i].is_featured

C9_Witness ==
    /\ resp.op = "get_nearby_societies" /\ resp.status_code = 200
    /\ Len(subs) = 1 /\ subs[1].service_provider_id = resp.provider_id
    /\ subs[1].status = "active" /\ subs[1].end_date < today
    /\ resp.subscription_tier = NoneStr
    /\ resp.max_radius_km = 10

\* C10: both copies of the tier table give 10 for basic, 25 for premium and
\* an unlimited radius for elite, and the same radius for every tier value,
\* None and unrecognised values included.
C10_RadiusTablesAgree ==
    /\ \A t \in TierValues :
          /\ get_subscription_radius_km(t) = max_radius_map_get(t)
          /\ get_subscription_radius_km(t) =
                CASE t \in {"basic_monthly", "basic_yearly"} -> 10
                  [] t \in {"premium_monthly", "premium_yearly"} -> 25
                  [] t = "elite_yearly" -> EliteRadius
                  [] OTHER -> 10
    /\ EliteRadius > HalfCircumference
    /\ (resp.op = "get_nearby_societies" /\ resp.status_code = 200) =>
          resp.max_radius_km = max_radius_map_get(resp.subscription_tier)
    /\ (resp.op = "create_booking" /\ resp.max_radius # NoneNum) =>
          resp.max_radius = get_subscription_radius_km(resp.tier)

C10_Witness ==
    /\ resp.op = "create_booking"
    /\ resp.tier = "elite_yearly"
    /\ resp.max_radius = EliteRadius
    /\ resp.kind = "ok"

\* the provider lists the society's city among its service areas, ignoring
\* case
ServesCity(provider, society) ==
    /\ provider.service_areas.kind = "list"
    /\ \E k \in 1..Len(provider.service_areas.items) :
          Lower(provider.service_areas.items[k]) = Lower(society.city)

\* the city rule of the fallback: same city ignoring case, or the society's
\* city among the provider's service areas
CityEligible(provider, society) ==
    \/ /\ provider.city # NoneStr
       /\ Lower(provider.city) = Lower(society.city)
    \/ ServesCity(provider, society)

\* the ids on the page of a get_nearby_vendors response
ListedVendorIds == {resp.vendors[i].id : i \in 1..Len(resp.vendors)}

\* C11: when the society or the provider lacks a coordinate,
\* get_nearby_vendors lists a verified active provider iff its city equals
\* the society's ignoring case or the society's city is among its service
\* areas; a provider with a missing city that does not serve the city is
\* not listed.
C11_CityFallbackInVendorListing ==
    (/\ resp.op = "get_nearby_vendors" /\ resp.status_code = 200
     /\ resp.skip = 0 /\ resp.limit = PageLimit) =>
        \A id \in VerifiedActiveProviders(NoneStr) :
            ~(/\ HasCoordinate(providers[id])
              /\ HasCoordinate(societies[resp.society_id])) =>
                (id \in ListedVendorIds <=>
                    CityEligible(providers[id], societies[resp.society_id]))

\* the ids on the page of a get_nearby_societies response
ListedSocietyIds == {resp.societies[i].id : i \in 1..Len(resp.societies)}

\* C13: a provider and a society that both have coordinates and are 0 km
\* apart are a known-distance pair in the listing endpoints: the pair is
\* listed on the radius branch, whatever the cities, and reported with
\* distance_km = 0, not null.
C13_ZeroDistanceIsKnown ==
    /\ (/\ resp.op = "get_nearby_vendors" /\ resp.status_code = 200
        /\ resp.skip = 0 /\ resp.limit = PageLimit) =>
            \A id \in VerifiedActiveProviders(NoneStr) :
                (/\ HasCoordinate(providers[id])
                 /\ HasCoordinate(societies[resp.society_id])
                 /\ GreatCircle(providers[id], societies[resp.society_id]) = 0) =>
                    \E i \in 1..Len(resp.vendors) :
                        /\ resp.vendors[i].id = id
                        /\ resp.vendors[i].distance_km = 0
    /\ (/\ resp.op = "get_nearby_societies" /\ resp.status_code = 200
        /\ resp.skip = 0 /\ resp.limit = PageLimit) =>
            \A id \in VerifiedActiveSocieties :
                (/\ HasCoordinate(providers[resp.provider_id])
                 /\ HasCoordinate(societies[id])
                 /\ GreatCircle(providers[resp.provider_id], societies[id]) = 0) =>
                    \E i \in 1..Len(resp.societies) :
                        /\ resp.societies[i].id = id
                        /\ resp.societies[i].distance_km = 0

\* the order of the tiers by the radius the specification gives them: 10 km
\* without a tier and for basic, 25 km for premium, unlimited for elite
TierRank(tier) ==
    CASE tier \in {"premium_monthly", "premium_yearly"} -> 2
      [] tier = "elite_yearly" -> 3
      [] OTHER -> 1

\* the tiers a provider can resolve to: none, or the tier of a plan
ResolvableTiers == {NoneStr} \cup {Plans[plan_id].tier : plan_id \in PlanIds}

\* create_booking lets a provider of the given tier through the area
\* restriction for the society
BookingPassesAs(provider_id, society_id, tier) ==
    AreaCheckForTier(provider_id, society_id, tier).kind = "pass"

\* get_nearby_societies without radius_km returns the society to a provider
\* of the given tier
SocietyListedAs(provider_id, society_id, tier) ==
    \A society_order \in Orderings(VerifiedActiveSocieties) :
        \E i \in 1..Len(NearbySocietiesForTier(provider_id, 0, PageLimit, NoneNum,
                                               tier, society_order).societies) :
            NearbySocietiesForTier(provider_id, 0, PageLimit, NoneNum, tier,
                                   society_order).societies[i].id = society_id

\* C16: for a provider and a society that both have coordinates, a tier of
\* higher radius passes the radius test wherever a tier of lower radius does:
\* a booking let through for the resolved tier is let through for every
\* tier of at least its radius, one turned away is turned away for every
\* tier of at most its radius, and a society that get_nearby_societies
\* (no radius_km) returns is returned for every tier of at least the radius.
C16_TierMonotonicity ==
    /\ (/\ ReachedAreaCheck
        /\ HasCoordinate(providers[resp.provider_id])
        /\ HasCoordinate(societies[resp.society_id])) =>
            /\ PassedAreaCheck <=>
                    BookingPassesAs(resp.provider_id, resp.society_id, resp.tier)
            /\ \A other \in ResolvableTiers :
                  /\ (PassedAreaCheck /\ TierRank(resp.tier) <= TierRank(other))
                        => BookingPassesAs(resp.provider_id, resp.society_id, other)
                  /\ (~PassedAreaCheck /\ TierRank(other) <= TierRank(resp.tier))
                        => ~BookingPassesAs(resp.provider_id, resp.society_id, other)
    /\ (/\ resp.op = "get_nearby_societies" /\ resp.status_code = 200
        /\ resp.search_radius_km = resp.max_radius_km
        /\ resp.skip = 0 /\ resp.limit = PageLimit
        /\ HasCoordinate(providers[resp.provider_id])) =>
            \A society_id \in VerifiedActiveSocieties :
                HasCoordinate(societies[society_id]) =>
                    /\ society_id \in ListedSocietyIds <=>
                            SocietyListedAs(resp.provider_id, society_id,
                                            resp.subscription_tier)
                    /\ \A other \in ResolvableTiers :
                          /\ (/\ society_id \in ListedSocietyIds
                              /\ TierRank(resp.subscription_tier) <= TierRank(other))
                                => SocietyListedAs(resp.provider_id, society_id, other)
                          /\ (/\ society_id \notin ListedSocietyIds
                              /\ TierRank(other) <= TierRank(resp.subscription_tier))
                                => ~SocietyListedAs(resp.provider_id, society_id, other)

\* the converse fails: a basic provider is turned away from a society
\* 16.68 km off that a premium provider may book and is shown
C16_Witness ==
    /\ ReachedAreaCheck
    /\ resp.kind = "ineligible_distance"
    /\ resp.tier = "basic_yearly"
    /\ BookingPassesAs(resp.provider_id, resp.society_id, "premium_monthly")
    /\ ~SocietyListedAs(resp.provider_id, resp.society_id, "basic_yearly")
    /\ SocietyListedAs(resp.provider_id, resp.society_id, "premium_monthly")

\* C17: an elite_yearly provider that has coordinates passes the radius test
\* for every society that has coordinates: create_booking does not turn it
\* away, and get_nearby_societies without radius_km returns every verified
\* active society that has coordinates.
C17_EliteUnrestricted ==
    /\ (/\ ReachedAreaCheck
        /\ resp.tier = "elite_yearly"
        /\ HasCoordinate(providers[resp.provider_id])
        /\ HasCoordinate(societies[resp.society_id])) =>
            PassedAreaCheck
    /\ (/\ resp.op = "get_nearby_societies" /\ resp.status_code = 200
        /\ resp.subscription_tier = "elite_yearly"
        /\ resp.search_radius_km = resp.max_radius_km
        /\ resp.skip = 0 /\ resp.limit = PageLimit
        /\ HasCoordinate(providers[resp.provider_id])) =>
            \A society_id \in VerifiedActiveSocieties :
                HasCoordinate(societies[society_id]) =>
                    society_id \in ListedSocietyIds

\* resp is the outcome of a call of one of the distance functions
DistanceCalled == resp.op \in {"calculate_distance", "GeocodingService.calculate_distance"}

\* the arguments of the call on display name a point, every value present
FirstPointGiven == resp.lat1 # NoneNum /\ resp.lon1 # NoneNum

SecondPointGiven == resp.lat2 # NoneNum /\ resp.lon2 # NoneNum

\* C14: the distance of a fully specified coordinate from itself is 0, not
\* the unknown value, whatever the numeric values, 0 included.
C14_ZeroDistanceIdentity ==
    (/\ DistanceCalled
     /\ FirstPointGiven
     /\ resp.lat2 = resp.lat1 /\ resp.lon2 = resp.lon1) =>
        resp.result = 0

\* the result of the function of the call on display for the arguments
\* in the other order
SwappedResult ==
    IF resp.op = "calculate_distance"
    THEN calculate_distance(resp.lat2, resp.lon2, resp.lat1, resp.lon1)
    ELSE GeocodingService_calculate_distance(resp.lat2, resp.lon2,
                                             resp.lat1, resp.lon1)

\* C15: calculate_distance(A, B) and calculate_distance(B, A) are both
\* unknown or the same number: the result of a call equals the result for
\* the arguments in the other order, is the great-circle distance when it is
\* known and is unknown when a value of either point is absent.
C15_DistanceSymmetric ==
    DistanceCalled =>
        /\ resp.result = SwappedResult
        /\ (FirstPointGiven /\ SecondPointGiven /\ resp.result # NoneNum) =>
                resp.result = Haversine(resp.lat1, resp.lon1, resp.lat2, resp.lon2)
        /\ ~(FirstPointGiven /\ SecondPointGiven) => resp.result = NoneNum

\* two different points one grid step apart, asked in one order: the other
\* order gives the same distance
C15_Witness ==
    /\ resp.op = "calculate_distance"
    /\ resp.lat1 = 2 /\ resp.lon1 = 2 /\ resp.lat2 = 2 /\ resp.lon2 = 3
    /\ resp.result = GridUnit
    /\ SwappedResult = GridUnit

\* C12: every society get_nearby_societies returns on a city-fallback path
\* (the vendor or the society has no coordinates) has a city equal to the
\* vendor's city ignoring case.
C12_FallbackCityMatchIsExact ==
    (resp.op = "get_nearby_societies" /\ resp.status_code = 200) =>
        \A i \in 1..Len(resp.societies) :
            LET provider == providers[resp.provider_id]
                society == societies[resp.societies[i].id]
            IN  (~HasCoordinate(provider) \/ ~HasCoordinate(society)) =>
                    /\ TruthyStr(provider.city) /\ TruthyStr(society.city)
                    /\ Lower(society.city) = Lower(provider.city)

\* resp is a page of get_nearby_vendors or of list_providers
IsListing ==
    /\ resp.op \in {"get_nearby_vendors", "list_providers"}
    /\ resp.status_code = 200

\* the entries of the page on display
ListingEntries ==
    IF resp.op = "get_nearby_vendors" THEN resp.vendors ELSE resp.providers

\* the distance the handler of the page on display computed for a listed
\* provider, None when it computed none
HandlerDistance(id) ==
    IF resp.op = "get_nearby_vendors"
    THEN VendorDistance(societies[resp.society_id], providers[id])
    ELSE ProviderMetadata(resp.latitude, resp.longitude, id, 0).distance_km

\* a value above every distance on the globe
PlusInfinity == HalfCircumference + 1

DistanceOrInfinity(id) ==
    IF HandlerDistance(id) # NoneNum THEN HandlerDistance(id) ELSE PlusInfinity

\* (not featured, -priority_ranking, distance_km or +infinity,
\*  -rating_average, -total_reviews) of a listed entry
PriorityKey(e) ==
    <<IF e.is_featured THEN 0 ELSE 1, -e.priority_ranking,
      DistanceOrInfinity(e.id), -e.average_rating, -e.total_reviews>>

\* C18: with sort_by = priority the page of get_nearby_vendors and of
\* list_providers is ascending in the tuple (not featured, -priority_ranking,
\* distance_km or +infinity when unknown, -rating_average, -total_reviews),
\* the same tuple for both handlers: no entry's key is less than the key of
\* the entry before it.
C18_PriorityOrder ==
    (IsListing /\ resp.sort_by = "priority") =>
        \A i \in 1..(Len(ListingEntries) - 1) :
            ~LexLess(PriorityKey(ListingEntries[i + 1]), PriorityKey(ListingEntries[i]))

\* Scenario 4 in get_nearby_vendors: providers 1 and 2 are both featured with
\* priority_ranking 5 and 5.56 km away, provider 2 rated 4.8 and provider 1
\* rated 4.5; the query returned provider 1 first and the page has provider
\* 2 first
C18_Witness ==
    /\ IsListing /\ resp.op = "get_nearby_vendors" /\ resp.sort_by = "priority"
    /\ Len(resp.vendors) = 3
    /\ resp.returned[1] = 1
    /\ resp.vendors[1].id = 2 /\ resp.vendors[2].id = 1
    /\ resp.vendors[1].is_featured /\ resp.vendors[2].is_featured
    /\ resp.vendors[1].priority_ranking = 5 /\ resp.vendors[2].priority_ranking = 5
    /\ HandlerDistance(1) = GridUnit /\ HandlerDistance(2) = GridUnit
    /\ resp.vendors[1].average_rating = 480 /\ resp.vendors[2].average_rating = 450

\* the distance get_nearby_societies computed for a listed society on the
\* branch of a provider with coordinates, None when it computed none
SocietyHandlerDistance(id) ==
    NearbyEntry(providers[resp.provider_id], id, resp.search_radius_km).distance_km

\* the page of get_nearby_societies on display was ranked by distance
IsRankedSocietyListing ==
    /\ resp.op = "get_nearby_societies" /\ resp.status_code = 200
    /\ ~resp.note

\* C19: a counterparty whose distance is unknown and which is eligible by the
\* city rule is still listed, and every known-distance entry precedes every
\* unknown-distance entry in distance mode, in priority mode among entries
\* equal on featured and priority_ranking, and in get_nearby_societies.
C19_UnknownDistanceListedLast ==
    /\ (/\ resp.op = "get_nearby_vendors" /\ resp.status_code = 200
        /\ resp.skip = 0 /\ resp.limit = PageLimit) =>
            \A id \in VerifiedActiveProviders(NoneStr) :
                (/\ HandlerDistance(id) = NoneNum
                 /\ CityEligible(providers[id], societies[resp.society_id])) =>
                    id \in ListedVendorIds
    /\ (/\ IsRankedSocietyListing
        /\ resp.skip = 0 /\ resp.limit = PageLimit) =>
            \A id \in VerifiedActiveSocieties :
                (/\ SocietyHandlerDistance(id) = NoneNum
                 /\ ~HasCoordinate(societies[id])
                 /\ Lower(societies[id].city) = Lower(providers[resp.provider_id].city)) =>
                    id \in ListedSocietyIds
    /\ (IsListing /\ resp.sort_by \in {"distance", "priority"}) =>
            \A i, j \in 1..Len(ListingEntries) :
                (/\ HandlerDistance(ListingEntries[i].id) # NoneNum
                 /\ HandlerDistance(ListingEntries[j].id) = NoneNum
                 /\ resp.sort_by = "priority" =>
                        /\ ListingEntries[i].is_featured = ListingEntries[j].is_featured
                        /\ ListingEntries[i].priority_ranking
                                = ListingEntries[j].priority_ranking) =>
                    i < j
    /\ IsRankedSocietyListing =>
            \A i, j \in 1..Len(resp.societies) :
                (/\ SocietyHandlerDistance(resp.societies[i].id) # NoneNum
                 /\ SocietyHandlerDistance(resp.societies[j].id) = NoneNum) =>
                    i < j

\* distance mode: the query returned provider 2, whose distance is unknown,
\* first; the page lists it, after the two providers 5.56 km away
C19_Witness ==
    /\ IsListing /\ resp.op = "get_nearby_vendors" /\ resp.sort_by = "distance"
    /\ HasCoordinate(societies[resp.society_id])
    /\ Len(resp.vendors) = 3
    /\ resp.returned[1] = 2
    /\ resp.vendors[3].id = 2
    /\ HandlerDistance(2) = NoneNum
    /\ HandlerDistance(resp.vendors[1].id) = GridUnit
    /\ HandlerDistance(resp.vendors[2].id) = GridUnit

\* truthiness of the coordinates the handler of the page on display sorts by
\* distance for
RequestHasLocation ==
    IF resp.op = "get_nearby_vendors"
    THEN /\ TruthyNum(societies[resp.society_id].latitude)
         /\ TruthyNum(societies[resp.society_id].longitude)
    ELSE TruthyNum(resp.latitude) /\ TruthyNum(resp.longitude)

\* the sort key of a listed entry in the mode of the page on display; the
\* empty tuple when the mode sorts nothing
ModeKey(e) ==
    CASE resp.sort_by = "priority" -> PriorityKey(e)
      [] resp.sort_by = "distance" /\ RequestHasLocation -> <<DistanceOrInfinity(e.id)>>
      [] resp.sort_by = "rating" -> <<-e.average_rating, -e.total_reviews>>
      [] OTHER -> <<>>

\* the place of a provider in the sequence the query returned
PositionReturned(id) ==
    CHOOSE k \in 1..Len(resp.returned) : resp.returned[k] = id

\* C20: in every mode the page is the one arrangement of the input sequence
\* that is ascending in the mode's key and keeps entries with equal keys in
\* their input order, so the same input gives the same output: no provider
\* is listed twice, no entry's key is less than the key of an earlier entry,
\* and of two entries with equal keys the one returned first is listed first.
C20_RankingStable ==
    IsListing =>
        /\ \A i, j \in 1..Len(ListingEntries) :
              i < j =>
                /\ ListingEntries[i].id # ListingEntries[j].id
                /\ ~LexLess(ModeKey(ListingEntries[j]), ModeKey(ListingEntries[i]))
                /\ ModeKey(ListingEntries[i]) = ModeKey(ListingEntries[j]) =>
                      PositionReturned(ListingEntries[i].id)
                          < PositionReturned(ListingEntries[j].id)
        /\ \A i \in 1..Len(ListingEntries) :
              \E k \in 1..Len(resp.returned) : resp.returned[k] = ListingEntries[i].id
        /\ (resp.skip = 0 /\ resp.limit = PageLimit /\ resp.op = "list_providers") =>
              Len(ListingEntries) = Len(resp.returned)

\* priority mode: providers 1 and 2 are equal on all five keys, the query
\* returned provider 2 before provider 1, and the page lists 2 right before 1
C20_Witness ==
    /\ IsListing /\ resp.sort_by = "priority"
    /\ \E i \in 1..(Len(ListingEntries) - 1) :
          /\ ListingEntries[i].id = 2 /\ ListingEntries[i + 1].id = 1
          /\ PriorityKey(ListingEntries[i]) = PriorityKey(ListingEntries[i + 1])
    /\ PositionReturned(2) < PositionReturned(1)
    /\ Len(ListingEntries) = 3

\* C21: with sort_by = distance and request coordinates the page is
\* ascending by distance with the unknown distances last, and with sort_by =
\* rating it is ascending by (-rating_average, -total_reviews); of two
\* entries that differ on the mode's key the one with the lesser key is
\* first, whatever their featured flags and priority rankings.
C21_AlternateModesUseOwnKeys ==
    /\ (IsListing /\ resp.sort_by = "distance" /\ RequestHasLocation) =>
          \A i, j \in 1..Len(ListingEntries) :
              DistanceOrInfinity(ListingEntries[i].id)
                    < DistanceOrInfinity(ListingEntries[j].id) => i < j
    /\ (IsListing /\ resp.sort_by = "rating") =>
          \A i, j \in 1..Len(ListingEntries) :
              LexLess(<<-ListingEntries[i].average_rating, -ListingEntries[i].total_reviews>>,
                      <<-ListingEntries[j].average_rating, -ListingEntries[j].total_reviews>>)
                  => i < j

\* an entry that is not featured is listed before a featured entry of higher
\* priority_ranking: in distance mode because it is nearer, in rating mode
\* because it has more reviews
C21_Witness ==
    /\ IsListing
    /\ \E i, j \in 1..Len(ListingEntries) :
          /\ i < j
          /\ ~ListingEntries[i].is_featured /\ ListingEntries[j].is_featured
          /\ ListingEntries[i].priority_ranking < ListingEntries[j].priority_ranking
          /\ \/ /\ resp.sort_by = "distance" /\ RequestHasLocation
                /\ DistanceOrInfinity(ListingEntries[i].id)
                      < DistanceOrInfinity(ListingEntries[j].id)
             \/ /\ resp.sort_by = "rating"
                /\ ListingEntries[i].average_rating = ListingEntries[j].average_rating
                /\ ListingEntries[i].total_reviews > ListingEntries[j].total_reviews

\* resp is a page of one of the three listing endpoints
IsPage ==
    /\ resp.op \in {"get_nearby_vendors", "list_providers", "get_nearby_societies"}
    /\ resp.status_code = 200

\* the entries of the page on display
PageEntries ==
    CASE resp.op = "get_nearby_vendors" -> resp.vendors
      [] resp.op = "list_providers" -> resp.providers
      [] OTHER -> resp.societies

\* min(limit, max(0, total - skip))
PageLength(total, skip, limit) ==
    LET rest == IF total - skip > 0 THEN total - skip ELSE 0
    IN  IF limit < rest THEN limit ELSE rest

\* C22: for every skip >= 0 and limit in [1, 100] the page of each listing
\* endpoint has min(limit, max(0, total - skip)) entries; a skip at or beyond
\* the end gives status 200 and an empty page.
C22_PageLength ==
    (resp.op \in {"get_nearby_vendors", "list_providers", "get_nearby_societies"}
        /\ resp.status_code # 404) =>
        /\ resp.status_code = 200
        /\ Len(PageEntries) = PageLength(resp.total, resp.skip, resp.limit)
        /\ resp.skip >= resp.total => PageEntries = <<>>

\* a page cut short by the end of a listing of three entries (skip 2, limit
\* 2) in get_nearby_vendors
C22_Witness ==
    /\ IsPage /\ resp.op = "get_nearby_vendors"
    /\ resp.total = 3 /\ resp.skip = 2 /\ resp.limit = 2
    /\ Len(PageEntries) = 1

\* the ids on the page on display, in page order
PageIds == [i \in 1..Len(PageEntries) |-> PageEntries[i].id]

\* what a request for a page says apart from skip: the endpoint, the society
\* or the vendor it is about, and limit
PageWalk ==
    CASE resp.op = "get_nearby_vendors" ->
            <<resp.op, resp.society_id, resp.sort_by, resp.limit>>
      [] resp.op = "list_providers" ->
            <<resp.op, resp.latitude, resp.longitude, resp.sort_by, resp.limit>>
      [] OTHER -> <<resp.op, resp.provider_id, resp.limit>>

\* a step from one page of a listing to the next page of the same listing
NextPageStep ==
    /\ IsPage /\ IsPage'
    /\ PageWalk' = PageWalk
    /\ resp'.skip = resp.skip + resp.limit

NoDuplicates(ids) == \A i, j \in 1..Len(ids) : i # j => ids[i] # ids[j]

\* C23: over unchanged data the pages for skip = 0, limit, 2 * limit, ...
\* put end to end are the full ranked sequence with every eligible entry
\* exactly once: a page and the page after it share no entry, and the first
\* two pages of a listing that fits on two pages hold total different entries.
C23_PagesPartitionListing ==
    [][NextPageStep =>
            /\ NoDuplicates(PageIds \o PageIds')
            /\ (resp.skip = 0 /\ resp.total <= 2 * resp.limit) =>
                    Len(PageIds \o PageIds') = resp.total]_vars

\* the providers get_nearby_vendors keeps for the society of the page on
\* display
EligibleVendors ==
    {id \in VerifiedActiveProviders(NoneStr) :
        VendorKept(societies[resp.society_id], providers[id],
                   VendorDistance(societies[resp.society_id], providers[id]),
                   resp.radius_km)}

\* the societies get_nearby_societies keeps for the vendor of the page on
\* display: within the search radius or of the vendor's city when the vendor
\* is located, matching the vendor's city when it is not
EligibleSocieties ==
    LET provider == providers[resp.provider_id]
    IN  {id \in VerifiedActiveSocieties :
            IF resp.note
            THEN TruthyStr(provider.city) =>
                    ILikeContains(societies[id].city, provider.city)
            ELSE NearbyEntry(provider, id, resp.search_radius_km).id # 0}

\* C24: total is the size of the full eligible set, whatever skip and limit
\* are, and counts no entry the filter removed; list_providers is asked for
\* the verified providers.
C24_TotalIsEligibleCount ==
    IsPage =>
        resp.total =
            CASE resp.op = "get_nearby_vendors" -> Cardinality(EligibleVendors)
              [] resp.op = "list_providers" ->
                    Cardinality(ListedProviders(TRUE, NoneStr, NoneStr))
              [] OTHER -> Cardinality(EligibleSocieties)

\* the second page of one: the city rule removed a provider of the three
\* that are verified and active, and total is 2
C24_Witness ==
    /\ IsPage /\ resp.op = "get_nearby_vendors"
    /\ Cardinality(VerifiedActiveProviders(NoneStr)) = 3
    /\ resp.total = 2
    /\ resp.skip = 1 /\ resp.limit = 1 /\ Len(resp.vendors) = 1

\* a step of one of the discovery operations
DiscoveryStep ==
    resp'.op \in {"list_providers", "get_nearby_vendors", "get_nearby_societies"}

\* C25: list_providers, get_nearby_vendors, get_nearby_societies and
\* create_booking leave every provider, society and subscription record (and
\* every invoice) as it was; the discovery operations leave the bookings as
\* they were and create_booking adds at most one row to them. The plans are
\* the fixed catalog Plans.
C25_DiscoveryIsReadOnly ==
    [][(DiscoveryStep \/ resp'.op = "create_booking") =>
            /\ providers' = providers
            /\ societies' = societies
            /\ subs' = subs
            /\ invoices' = invoices
            /\ DiscoveryStep => bookings' = bookings
            /\ \/ bookings' = bookings
               \/ /\ Len(bookings') = Len(bookings) + 1
                  /\ SubSeq(bookings', 1, Len(bookings)) = bookings]_vars

\* a booking was accepted for an active provider whose subscription has been
\* paid: the records are there to be changed, and the booking row is added
C25_Witness ==
    /\ resp.op = "create_booking" /\ resp.kind = "ok"
    /\ Len(bookings) = 1
    /\ Len(subs) >= 1 /\ Len(invoices) >= 1
    /\ providers[1].is_active

\* C26: for a vendor with coordinates every society get_nearby_societies
\* returns with a known distance is within max_radius_km of the vendor's
\* resolved tier, whatever radius_km the caller sends.
C26_OverrideNeverWidens ==
    (IsRankedSocietyListing /\ HasCoordinate(providers[resp.provider_id])) =>
        \A i \in 1..Len(resp.societies) :
            SocietyHandlerDistance(resp.societies[i].id) # NoneNum =>
                SocietyHandlerDistance(resp.societies[i].id) <= resp.max_radius_km * Km

\* C27: on the city-fallback path the tier does not decide who is listed.
\* In get_nearby_vendors two verified active providers with equal records,
\* for neither of which the handler has a distance, are listed together or
\* not at all, whatever their subscriptions; in get_nearby_societies a
\* society reached by the fallback (the vendor or the society lacks
\* coordinates) is listed for the vendor's tier iff it is listed for every
\* other tier.
C27_TierNotUsedOnCityFallback ==
    /\ (/\ resp.op = "get_nearby_vendors" /\ resp.status_code = 200
        /\ resp.skip = 0 /\ resp.limit = PageLimit) =>
            \A a, b \in VerifiedActiveProviders(NoneStr) :
                (/\ providers[a] = providers[b]
                 /\ HandlerDistance(a) = NoneNum /\ HandlerDistance(b) = NoneNum) =>
                    (a \in ListedVendorIds <=> b \in ListedVendorIds)
    /\ (/\ resp.op = "get_nearby_societies" /\ resp.status_code = 200
        /\ resp.skip = 0 /\ resp.limit = PageLimit
        /\ resp.search_radius_km = resp.max_radius_km) =>
            \A society_id \in VerifiedActiveSocieties :
                (\/ ~HasCoordinate(providers[resp.provider_id])
                 \/ ~HasCoordinate(societies[society_id])) =>
                    \A other \in ResolvableTiers :
                        society_id \in ListedSocietyIds
                            <=> SocietyListedAs(resp.provider_id, society_id, other)

\* get_nearby_vendors for a society without coordinates lists provider 2,
\* on the elite plan, and provider 3, without a plan, whose records are equal
C27_Witness ==
    /\ resp.op = "get_nearby_vendors" /\ resp.status_code = 200
    /\ ~HasCoordinate(societies[resp.society_id])
    /\ providers[2] = providers[3]
    /\ \E i, j \in 1..Len(resp.vendors) :
          /\ resp.vendors[i].id = 2 /\ resp.vendors[i].subscription_tier = "elite_yearly"
          /\ resp.vendors[j].id = 3 /\ resp.vendors[j].subscription_tier = NoneStr

\* the provider has a subscription with status ACTIVE and end_date >= today
HasCurrentSubscription(provider_id) == CurrentSubscriptions(provider_id) # {}

\* C28: whatever subscribe_vendor, activate_subscription and the passing of
\* days have done, a response that shows a provider's resolved tier shows a
\* tier exactly when the provider has a subscription with status ACTIVE and
\* end_date >= today: a PENDING_PAYMENT subscription confers none, and an
\* ACTIVE one confers none after its end_date although its status stays.
C28_TierIffCurrentSubscription ==
    /\ (resp.op = "get_nearby_vendors" /\ resp.status_code = 200) =>
          \A i \in 1..Len(resp.vendors) :
              resp.vendors[i].subscription_tier # NoneStr
                  <=> HasCurrentSubscription(resp.vendors[i].id)
    /\ (resp.op = "list_providers" /\ resp.status_code = 200) =>
          \A i \in 1..Len(resp.providers) :
              resp.providers[i].subscription_status # "none"
                  <=> HasCurrentSubscription(resp.providers[i].id)
    /\ (resp.op = "get_nearby_societies" /\ resp.status_code = 200) =>
          (resp.subscription_tier # NoneStr <=> HasCurrentSubscription(resp.provider_id))
    /\ ReachedAreaCheck =>
          (resp.tier # NoneStr <=> HasCurrentSubscription(resp.provider_id))

\* provider 1 has an ACTIVE subscription that ended before today and a
\* second one awaiting payment, and get_nearby_societies resolves no tier
C28_Witness ==
    /\ resp.op = "get_nearby_societies" /\ resp.status_code = 200
    /\ resp.provider_id = 1
    /\ resp.subscription_tier = NoneStr
    /\ \E i, j \in 1..Len(subs) :
          /\ subs[i].service_provider_id = 1 /\ subs[i].status = "active"
          /\ subs[i].end_date < today
          /\ subs[j].service_provider_id = 1 /\ subs[j].status = "pending_payment"
          /\ subs[j].end_date >= today

\* a step that answers an activate_subscription request of a caller who is
\* not an administrator
NonAdminActivation ==
    /\ resp'.op = "activate_subscription"
    /\ resp'.caller_role \notin {"super_admin", "mahasewa_admin"}

\* C29: a request to activate_subscription that does not come from an
\* administrator changes no subscription's status to active, marks no invoice
\* paid and sets no provider's is_active flag.
C29_ActivationIsAdminOnly ==
    [][NonAdminActivation =>
          /\ \A i \in 1..Len(subs) :
                subs'[i].status = "active" => subs[i].status = "active"
          /\ \A i \in 1..Len(invoices) :
                invoices'[i].status = "paid" => invoices[i].status = "paid"
          /\ \A id \in DOMAIN providers :
                providers'[id].is_active => providers[id].is_active]_vars

\* the requests in flight that hold an invoice number
Numbered == {w \in Workers : sessions[w] # Idle}

\* C30: the invoice creations in flight never hold the same invoice number,
\* and no two persisted invoices have the same invoice_number.
C30_InvoiceNumbersUnique ==
    /\ \A w1, w2 \in Numbered :
          w1 # w2 => sessions[w1].invoice_number # sessions[w2].invoice_number
    /\ \A i, j \in 1..Len(invoices) :
          i # j => invoices[i].invoice_number # invoices[j].invoice_number

====
